---- MODULE Spec2Model ----
(***************************************************************************)
(* Master/slave UAV telemetry relay.                                       *)
(*                                                                         *)
(*   MasterSlaveService  (src/frontend/src/components/common/Header.js)    *)
(*   its HTTP routes     (src/backend/src/routes/masterSlave.js)           *)
(*                                                                         *)
(* The state is the SQLite store the service talks to (the master_drone    *)
(* table and the slave_data_transmissions table, each of which may not     *)
(* exist yet), the wall clock, and the requests in flight.  A request      *)
(* advances from one await to the next: every action below is the code     *)
(* that runs between two suspension points of a handler.                   *)
(***************************************************************************)
EXTENDS Integers, Sequences, FiniteSets, TLC

\* ------------------------------------------------------------------ bounds
\* Rows of the longest transmission log the aggregator is run on.
MaxLog == 2
\* Rows the transmissions table may hold before reports stop being started.
MaxAppends == 1
\* Longest detection list attached to one report.
MaxDet == 3
\* Last instant of the wall clock; caller timestamps range over the same
\* instants.  An instant n stands for a fixed-format ISO-8601 string, whose
\* string order (the order SQLite and JavaScript compare by) is time order.
MaxClock == 2

\* ------------------------------------------------------------- input sets
Procs == {1, 2}
\* The slot in use when requests are served one after another.
Serial == {1}
\* The slave ids reports come with: two ordinary names, a name that is the
\* decimal form of an array index, and a name Object.prototype defines.
Fleet == {"S1", "S2"}
Slaves == Fleet \cup {"7", "constructor"}
Masters == {"M1", "M2"}
\* "" is the absent (falsy) identifier, 0 the absent (falsy) timestamp,
\* Null the absent optional metric.
NoId == ""
NoTs == 0
Null == -1
Instants == 1..MaxClock

NoLocation == [given |-> FALSE, lat |-> 0, lng |-> 0, altitude |-> 0]
\* Telemetry bundles a report may carry: nothing, or every field.
TelNone == [location |-> NoLocation, batteryLevel |-> Null, isacMode |-> Null,
            signalStrength |-> Null, dataRate |-> Null]
TelFull == [location |-> [given |-> TRUE, lat |-> 1, lng |-> 2, altitude |-> 3],
            batteryLevel |-> 80, isacMode |-> 4, signalStrength |-> 5,
            dataRate |-> 6]
Telemetry == {TelNone, TelFull}

\* The k-th detection of a report: odd ones carry their own id and
\* timestamp, even ones carry neither.
DetectionAt(k) ==
    IF k % 2 = 1 THEN [id |-> "d", coordinates |-> k, timestamp |-> 1, type |-> "animal"]
                 ELSE [id |-> NoId, coordinates |-> k, timestamp |-> NoTs, type |-> ""]
DetectionList(n) == [k \in 1..n |-> DetectionAt(k)]

VARIABLES
    masterTable,     \* does table master_drone exist
    master_drone,    \* its rows
    assigned,        \* the ids the last two completed setMasterDrone calls were given
    slaveTable,      \* does table slave_data_transmissions exist
    transmissions,   \* its rows, in rowid (arrival) order
    clock,           \* the instant new Date() reads
    io,              \* req.io: "attached", or "failing" when an emit can throw
    req              \* req[p]: the request handled in slot p

vars == <<masterTable, master_drone, assigned, slaveTable, transmissions, clock, io, req>>

\* ------------------------------------------------------------ SQL store
\* A plain INSERT that lets the table number the row: the old row stays.
InsertMasterAgain(rows, masterUAVId, timestamp) ==
    rows \cup
    {[id |-> Cardinality(rows) + 1, master_uav_id |-> masterUAVId,
      assigned_at |-> timestamp, updated_at |-> timestamp]}

\* INSERT OR REPLACE INTO master_drone (id, ...) VALUES (1, ?, ?, ?):
\* id is the primary key, so the row with id 1 is replaced.
InsertOrReplaceMaster(rows, masterUAVId, timestamp) ==
    {r \in rows : r.id # 1} \cup
    {[id |-> 1, master_uav_id |-> masterUAVId,
      assigned_at |-> timestamp, updated_at |-> timestamp]}

\* SELECT * FROM master_drone WHERE id = 1
SelectMaster(rows) == {r \in rows : r.id = 1}

\* The row addressed to the designated master, when there is one, instead of
\* the master the report states.
TransmissionRowOfDesignated(slaveUAVId, masterUAVId, tel, detections, timestamp) ==
    [slave_uav_id |-> slaveUAVId,
     master_uav_id |-> IF SelectMaster(master_drone) = {} THEN masterUAVId
                       ELSE (CHOOSE r \in SelectMaster(master_drone) : TRUE).master_uav_id,
     lat |-> IF tel.location.given THEN tel.location.lat ELSE 0,
     lng |-> IF tel.location.given THEN tel.location.lng ELSE 0,
     altitude |-> IF tel.location.given THEN tel.location.altitude ELSE 0,
     battery_level |-> tel.batteryLevel,
     isac_mode |-> tel.isacMode,
     signal_strength |-> tel.signalStrength,
     data_rate |-> tel.dataRate,
     detections_count |-> Len(detections),
     timestamp |-> timestamp]

\* The params array of storeSlaveData, as the row INSERT stores.  created_at
\* is written but no query of the service reads it; it is left out.
TransmissionRow(slaveUAVId, masterUAVId, tel, detections, timestamp) ==
    [slave_uav_id |-> slaveUAVId,
     master_uav_id |-> masterUAVId,
     lat |-> IF tel.location.given THEN tel.location.lat ELSE 0,
     lng |-> IF tel.location.given THEN tel.location.lng ELSE 0,
     altitude |-> IF tel.location.given THEN tel.location.altitude ELSE 0,
     battery_level |-> tel.batteryLevel,
     isac_mode |-> tel.isacMode,
     signal_strength |-> tel.signalStrength,
     data_rate |-> tel.dataRate,
     detections_count |-> Len(detections),
     timestamp |-> timestamp]

\* INSERT INTO slave_data_transmissions: the row gets the next rowid.
InsertTransmission(rows, row) == Append(rows, row)

\* The query without its WHERE clause.
WhereAnyMaster(rows, masterUAVId) == rows

RECURSIVE WhereMaster(_, _)
\* WHERE master_uav_id = ?: the rows addressed to the master, in rowid order.
WhereMaster(rows, masterUAVId) ==
    IF rows = <<>> THEN <<>>
    ELSE IF Head(rows).master_uav_id = masterUAVId
         THEN <<Head(rows)>> \o WhereMaster(Tail(rows), masterUAVId)
         ELSE WhereMaster(Tail(rows), masterUAVId)

RECURSIVE InsertDesc(_, _)
\* r put into the timestamp-descending sequence s behind every row whose
\* timestamp is at least its own.
InsertDesc(s, r) ==
    IF s = <<>> THEN <<r>>
    ELSE IF Head(s).timestamp >= r.timestamp THEN <<Head(s)>> \o InsertDesc(Tail(s), r)
    ELSE <<r>> \o s

RECURSIVE OrderByTimestampDesc(_)
\* ORDER BY timestamp DESC.  Rows with equal timestamps keep rowid order,
\* which is what SQLite's sorter over the idx_slave_master scan returns.
OrderByTimestampDesc(s) ==
    IF s = <<>> THEN <<>>
    ELSE InsertDesc(OrderByTimestampDesc(SubSeq(s, 1, Len(s) - 1)), s[Len(s)])

\* LIMIT ?: a negative limit is no limit.
Limit(s, n) == IF n < 0 \/ n >= Len(s) THEN s ELSE SubSeq(s, 1, n)

\* The last n rows of s, all of them when n is negative.
LastArrived(s, n) == IF n < 0 \/ n >= Len(s) THEN s ELSE SubSeq(s, Len(s) - n + 1, Len(s))

\* A query that takes the limit by arrival before it orders by timestamp.
QueryLatestArrivals(rows, masterUAVId, limit) ==
    OrderByTimestampDesc(LastArrived(WhereMaster(rows, masterUAVId), limit))

\* db.all(query, [masterUAVId, limit]) of getAggregatedData
QueryByMaster(rows, masterUAVId, limit) ==
    Limit(OrderByTimestampDesc(WhereMaster(rows, masterUAVId)), limit)

\* ------------------------------------------------------------ aggregator
NullLocation == [isNull |-> TRUE, lat |-> 0, lng |-> 0, altitude |-> 0]
NullISAC == [isNull |-> TRUE, mode |-> Null, signalStrength |-> Null, dataRate |-> Null]

\* aggregated[slaveId] = {...}: the summary a slave starts with.
NewSummary(slaveId) ==
    [slaveUAVId |-> slaveId,
     transmissions |-> <<>>,
     totalDetections |-> 0,
     latestLocation |-> NullLocation,
     latestBattery |-> Null,
     latestISAC |-> NullISAC,
     lastUpdate |-> NoTs]

\* The entry pushed on a slave's transmissions for one retrieved row.
HistoryEntry(t) ==
    [location |-> [lat |-> t.lat, lng |-> t.lng, altitude |-> t.altitude],
     batteryLevel |-> t.battery_level,
     isacMode |-> t.isac_mode,
     signalStrength |-> t.signal_strength,
     dataRate |-> t.data_rate,
     detectionsCount |-> t.detections_count,
     timestamp |-> t.timestamp]

\* The latest fields assigned on every pass: the row visited last wins.
UpdatesAlways(summary, t) == TRUE

\* The comparison with >=: a row with an equal timestamp overwrites.
UpdatesOnTie(summary, t) ==
    summary.lastUpdate = NoTs \/ t.timestamp >= summary.lastUpdate

\* if (!lastUpdate || transmission.timestamp > lastUpdate)
UpdatesLatest(summary, t) ==
    summary.lastUpdate = NoTs \/ t.timestamp > summary.lastUpdate

\* The assignments under that condition.
WithLatest(summary, t) ==
    [summary EXCEPT
        !.latestLocation = [isNull |-> FALSE, lat |-> t.lat, lng |-> t.lng,
                            altitude |-> t.altitude],
        !.latestBattery = t.battery_level,
        !.latestISAC = [isNull |-> FALSE, mode |-> t.isac_mode,
                        signalStrength |-> t.signal_strength,
                        dataRate |-> t.data_rate],
        !.lastUpdate = t.timestamp]

\* A summary made for every row, as if none were ever found.
KnownNever(aggregated, slaveId) == FALSE

\* The grand total counting rows instead of detections.
AddOne(total, t) == total + 1

\* The property names a plain object inherits from Object.prototype: for
\* these aggregated[slaveId] is truthy although no summary was ever stored.
ObjectPrototypeKeys ==
    {"constructor", "hasOwnProperty", "isPrototypeOf", "propertyIsEnumerable",
     "toLocaleString", "toString", "valueOf", "__proto__",
     "__defineGetter__", "__defineSetter__", "__lookupGetter__", "__lookupSetter__"}

\* aggregated has an own property slaveId: a summary was stored for it.
HasSummary(aggregated, slaveId) ==
    \E k \in DOMAIN aggregated : aggregated[k].slaveUAVId = slaveId

\* aggregated[slaveId] is truthy: the slave has a summary already, or the
\* name is found on the prototype.
Known(aggregated, slaveId) ==
    slaveId \in ObjectPrototypeKeys \/ HasSummary(aggregated, slaveId)

\* The TypeError of aggregated[slaveId].transmissions.push when
\* aggregated[slaveId] is an inherited member, which has no transmissions.
PushOfUndefined == "Cannot read properties of undefined (reading 'push')"

\* totalDetections += transmission.detections_count
AddDetections(total, t) == total + t.detections_count

\* One pass of the forEach callback.  acc.aggregated lists the summaries in
\* the order their keys were inserted; acc.error is the message of the
\* error the callback threw, "" if none.
Visit(acc, t) ==
    LET slaveId == t.slave_uav_id
        agg0 == IF Known(acc.aggregated, slaveId) THEN acc.aggregated
                ELSE Append(acc.aggregated, NewSummary(slaveId))
        k == CHOOSE j \in DOMAIN agg0 :
                /\ agg0[j].slaveUAVId = slaveId
                /\ \A i \in DOMAIN agg0 : agg0[i].slaveUAVId = slaveId => i <= j
        s1 == [agg0[k] EXCEPT !.transmissions = Append(@, HistoryEntry(t)),
                              !.totalDetections = @ + t.detections_count]
        s2 == IF UpdatesLatest(s1, t) THEN WithLatest(s1, t) ELSE s1
    IN  IF ~HasSummary(agg0, slaveId)
        THEN [acc EXCEPT !.error = PushOfUndefined]
        ELSE [aggregated |-> [agg0 EXCEPT ![k] = s2],
              totalDetections |-> AddDetections(acc.totalDetections, t),
              totalTransmissions |-> acc.totalTransmissions + 1,
              error |-> ""]

RECURSIVE ForEach(_, _)
\* transmissions.forEach(...), from the empty accumulator; an error thrown
\* by the callback ends the loop.
ForEach(ts, acc) ==
    IF ts = <<>> \/ acc.error # "" THEN acc
    ELSE ForEach(Tail(ts), Visit(acc, Head(ts)))

\* The decimal digits.
Digits == {"0", "1", "2", "3", "4", "5", "6", "7", "8", "9"}

RECURSIVE AllDigits(_)
AllDigits(name) ==
    name = "" \/ (Head(name) \in Digits /\ AllDigits(Tail(name)))

\* The place of a digit among the digits.
DigitValue(c) ==
    CASE c = "0" -> 0 [] c = "1" -> 1 [] c = "2" -> 2 [] c = "3" -> 3
      [] c = "4" -> 4 [] c = "5" -> 5 [] c = "6" -> 6 [] c = "7" -> 7
      [] c = "8" -> 8 [] OTHER -> 9

RECURSIVE DigitsBefore(_, _)
\* Of two digit strings of one length, a comes before b.
DigitsBefore(a, b) ==
    /\ a # ""
    /\ \/ DigitValue(Head(a)) < DigitValue(Head(b))
       \/ Head(a) = Head(b) /\ DigitsBefore(Tail(a), Tail(b))

\* Of two canonical numerals, a is the smaller number.
IndexBefore(a, b) ==
    Len(a) < Len(b) \/ (Len(a) = Len(b) /\ DigitsBefore(a, b))

\* The numeral of the largest array index, 2^32 - 2.
MaxArrayIndex == "4294967294"

\* A property name is an array index when it is the canonical decimal form
\* (no leading zero) of an integer from 0 to 2^32 - 2.
IsArrayIndex(name) ==
    /\ name # ""
    /\ AllDigits(name)
    /\ Len(name) = 1 \/ Head(name) # "0"
    /\ name = MaxArrayIndex \/ IndexBefore(name, MaxArrayIndex)

RECURSIVE InsertByIndex(_, _)
\* Summary x put into s, which is ascending in the index of its keys.
InsertByIndex(s, x) ==
    IF s = <<>> THEN <<x>>
    ELSE IF IndexBefore(Head(s).slaveUAVId, x.slaveUAVId)
         THEN <<Head(s)>> \o InsertByIndex(Tail(s), x)
         ELSE <<x>> \o s

RECURSIVE AscendingByIndex(_)
AscendingByIndex(s) ==
    IF s = <<>> THEN <<>>
    ELSE InsertByIndex(AscendingByIndex(SubSeq(s, 1, Len(s) - 1)), s[Len(s)])

\* Object.values(aggregated): the values of the index-like keys in ascending
\* numeric order, then those of the other keys in insertion order.
ObjectValues(aggregated) ==
    AscendingByIndex(SelectSeq(aggregated, LAMBDA x : IsArrayIndex(x.slaveUAVId)))
    \o SelectSeq(aggregated, LAMBDA x : ~IsArrayIndex(x.slaveUAVId))

\* The accumulators kept outside the function: a call goes on from what the
\* call before it left.
AccumulatorsKept(r) ==
    IF r.prev.kind = "snapshot"
    THEN [aggregated |-> r.prev.slaves, totalDetections |-> r.prev.totalDetections,
          totalTransmissions |-> r.prev.totalTransmissions, error |-> ""]
    ELSE [aggregated |-> <<>>, totalDetections |-> 0, totalTransmissions |-> 0,
          error |-> ""]

\* const aggregated = {}; let totalDetections = 0; let totalTransmissions = 0;
\* the accumulators are locals of the call r, made anew in it.
EmptyAcc ==
    [aggregated |-> <<>>, totalDetections |-> 0, totalTransmissions |-> 0, error |-> ""]
Accumulators(r) == EmptyAcc

\* The object getAggregatedData returns for the retrieved rows, or the
\* error the aggregation threw (which the catch block rethrows).
Snapshot(masterUAVId, ts, now, acc0) ==
    LET acc == ForEach(ts, acc0)
    IN  IF acc.error # "" THEN [kind |-> "error", message |-> acc.error]
        ELSE [kind |-> "snapshot",
              masterUAVId |-> masterUAVId,
              totalSlaves |-> Len(acc.aggregated),
              totalTransmissions |-> acc.totalTransmissions,
              totalDetections |-> acc.totalDetections,
              slaves |-> ObjectValues(acc.aggregated),
              timestamp |-> now]

\* The object getAggregatedData returns after creating the missing table.
ZeroSnapshot(masterUAVId, now) ==
    [kind |-> "snapshot",
     masterUAVId |-> masterUAVId,
     totalSlaves |-> 0,
     totalTransmissions |-> 0,
     totalDetections |-> 0,
     slaves |-> <<>>,
     timestamp |-> now]

\* -------------------------------------------------------------- requests
NoData == [kind |-> "none"]

\* A slot with no request in it.  masterUAVId .. limitParam are the
\* request's input and limit is the route's parsed limit; ts is the
\* service function's local timestamp; idx and survivors
\* belong to the relay loop (survivors: the records createSurvivor stored);
\* ix counts the CREATE INDEX statements createSlaveDataTable has run;
\* events are the req.io.emit calls made; status, error and data are the
\* response.  The rest is bookkeeping about the run: relayLog lists the
\* createSurvivor calls and how each ended, runs counts the db.run calls of
\* the request's write, rowids lists the rows it inserted, noTable records
\* that a statement met a missing table, faults counts the storage errors
\* of another kind, fresh says the slot holds an aggregate answered since
\* the log was last written, and prev is the aggregate answered in this
\* slot for the same arguments just before, if the log was not written in
\* between, and seen is the id given to the last setMasterDrone that had
\* completed when the request's SELECT ran.
IdleReq ==
    [op |-> "none", pc |-> "idle",
     masterUAVId |-> NoId, slaveUAVId |-> NoId, tel |-> TelNone,
     detections |-> <<>>, timestamp |-> NoTs,
     limitParam |-> [numeric |-> FALSE, n |-> 0], limit |-> 0,
     ts |-> NoTs, idx |-> 0, ix |-> 0, survivors |-> <<>>, relayLog |-> <<>>,
     events |-> <<>>, runs |-> 0, rowids |-> <<>>, noTable |-> FALSE,
     faults |-> 0, fresh |-> FALSE, prev |-> NoData, seen |-> NoId,
     status |-> 0, error |-> "", data |-> NoData]

NewReq(op) == [IdleReq EXCEPT !.op = op]

\* res.status(status).json(...) or res.json(...): the handler is over.
Respond(r, status, error, data) ==
    [r EXCEPT !.pc = "done", !.status = status, !.error = error, !.data = data]

\* What a statement against a table ends with: "" when it ran, otherwise the
\* message of the error the driver rejects with.  The store can fail any
\* statement (fault) whether or not the table is there.
Busy == "SQLITE_BUSY: database is locked"
NoSuchTable(name) == "SQLITE_ERROR: no such table: " \o name
DbError(exists, fault, name) ==
    IF fault THEN Busy ELSE IF ~exists THEN NoSuchTable(name) ELSE ""

\* The catch blocks taking every error for a missing table, or none.
IncludesAlways(message) == TRUE
IncludesNever(message) == FALSE

\* error.message.includes('no such table')
IncludesNoSuchTable(message) ==
    message \in {NoSuchTable("master_drone"), NoSuchTable("slave_data_transmissions")}

\* catch (error) of a route: 500 with the error's message.
InternalError(r, message) == Respond(r, 500, message, NoData)

\* The request's bookkeeping once a statement of it has ended with err.
Met(r, err) ==
    [r EXCEPT !.noTable = @ \/ err \in {NoSuchTable("master_drone"),
                                        NoSuchTable("slave_data_transmissions")},
              !.faults = @ + (IF err = Busy THEN 1 ELSE 0)]

Free(p) == req[p].pc \in {"idle", "done"}

\* ------------------------------------------------------ POST /set-master
\* The route up to the first await of setMasterDrone.
SetMasterRoute(p) ==
    /\ Free(p)
    /\ \E masterUAVId \in Masters \cup {NoId} :
         req' = [req EXCEPT ![p] =
                    IF masterUAVId = NoId
                    THEN Respond(NewReq("set-master"), 400, "masterUAVId is required", NoData)
                    ELSE [NewReq("set-master") EXCEPT !.pc = "sm.run",
                                                      !.masterUAVId = masterUAVId,
                                                      !.ts = clock]]
    /\ UNCHANGED <<masterTable, master_drone, assigned, slaveTable, transmissions, clock, io>>

\* The outcomes of a call of req.io.emit: it returns (TRUE), or, with a
\* failing req.io, it can throw (FALSE).
EmitError == "emit failed"
EmitOutcomes == IF io = "attached" THEN {TRUE} ELSE BOOLEAN

\* What setMasterDrone returns, and the route's emit and response.
MasterInfo(masterUAVId, timestamp) ==
    [kind |-> "master", masterUAVId |-> masterUAVId,
     assignedAt |-> timestamp, updatedAt |-> timestamp]

\* sent: req.io.emit returned; otherwise it threw, inside the route's try.
MasterSet(r, sent) ==
    IF sent
    THEN Respond([r EXCEPT !.runs = @ + 1,
                           !.events = Append(@, [name |-> "master_drone_changed",
                                                 uavId |-> r.masterUAVId])],
                 200, "", MasterInfo(r.masterUAVId, r.ts))
    ELSE InternalError([r EXCEPT !.runs = @ + 1], EmitError)

\* await db.run(query, ...) in the try block, and what follows it.
setMasterDrone(p) ==
    /\ req[p].pc = "sm.run"
    /\ \E fault \in BOOLEAN, sent \in EmitOutcomes :
         LET err == DbError(masterTable, fault, "master_drone")
             r == Met(req[p], err)
         IN  IF err = ""
             THEN /\ master_drone' = InsertOrReplaceMaster(master_drone, r.masterUAVId, r.ts)
                  /\ assigned' = [last |-> r.masterUAVId, before |-> assigned.last]
                  /\ req' = [req EXCEPT ![p] = MasterSet(r, sent)]
             ELSE /\ UNCHANGED <<master_drone, assigned>>
                  /\ req' = [req EXCEPT ![p] =
                        IF IncludesNoSuchTable(err)
                        THEN [r EXCEPT !.pc = "sm.create", !.runs = @ + 1]
                        ELSE InternalError([r EXCEPT !.runs = @ + 1], err)]
    /\ UNCHANGED <<masterTable, slaveTable, transmissions, clock, io>>

\* await db.run(query, ...) in the catch block: an error here is not caught
\* by the service.
setMasterDroneRetry(p) ==
    /\ req[p].pc = "sm.retry"
    /\ \E fault \in BOOLEAN, sent \in EmitOutcomes :
         LET err == DbError(masterTable, fault, "master_drone")
             r == Met(req[p], err)
         IN  IF err = ""
             THEN /\ master_drone' = InsertOrReplaceMaster(master_drone, r.masterUAVId, r.ts)
                  /\ assigned' = [last |-> r.masterUAVId, before |-> assigned.last]
                  /\ req' = [req EXCEPT ![p] = MasterSet(r, sent)]
             ELSE /\ UNCHANGED <<master_drone, assigned>>
                  /\ req' = [req EXCEPT ![p] = InternalError([r EXCEPT !.runs = @ + 1], err)]
    /\ UNCHANGED <<masterTable, slaveTable, transmissions, clock, io>>

\* ----------------------------------------------------------- GET /master
GetMasterRoute(p) ==
    /\ Free(p)
    /\ req' = [req EXCEPT ![p] = [NewReq("master") EXCEPT !.pc = "gm.get"]]
    /\ UNCHANGED <<masterTable, master_drone, assigned, slaveTable, transmissions, clock, io>>

\* await db.get(query), the service's return and the route's response.
getMasterDrone(p) ==
    /\ req[p].pc = "gm.get"
    /\ \E fault \in BOOLEAN :
         LET err == DbError(masterTable, fault, "master_drone")
             r == [Met(req[p], err) EXCEPT !.seen = assigned.last]
             result == SelectMaster(master_drone)
         IN  req' = [req EXCEPT ![p] =
                IF err = ""
                THEN IF result # {}
                     THEN LET row == CHOOSE x \in result : TRUE
                          IN  Respond(r, 200, "",
                                      [kind |-> "master",
                                       masterUAVId |-> row.master_uav_id,
                                       assignedAt |-> row.assigned_at,
                                       updatedAt |-> row.updated_at])
                     ELSE Respond(r, 404, "No master drone assigned", NoData)
                ELSE IF IncludesNoSuchTable(err)
                     THEN [r EXCEPT !.pc = "gm.create"]
                     ELSE InternalError(r, err)]
    /\ UNCHANGED <<masterTable, master_drone, assigned, slaveTable, transmissions, clock, io>>

\* createMasterDroneTable, called from either catch block, and the code that
\* follows the call up to the next await.
createMasterDroneTable(p) ==
    /\ req[p].pc \in {"sm.create", "gm.create"}
    /\ \E fault \in BOOLEAN :
         LET r == Met(req[p], IF fault THEN Busy ELSE "")
         IN  IF fault
             THEN /\ UNCHANGED masterTable
                  /\ req' = [req EXCEPT ![p] = InternalError(r, Busy)]
             ELSE /\ masterTable' = TRUE
                  /\ req' = [req EXCEPT ![p] =
                        IF r.pc = "sm.create"
                        THEN [r EXCEPT !.pc = "sm.retry"]
                        ELSE Respond(r, 404, "No master drone assigned", NoData)]
    /\ UNCHANGED <<master_drone, assigned, slaveTable, transmissions, clock, io>>

\* ------------------------------------------------------ POST /slave-data
\* The bodies a slave posts: the reports with both identifiers, of the
\* ordinary slaves in every variety and of the other two in one, and those
\* with one missing.  n is the length of the detection list.
SlaveDataInputs ==
    [slaveUAVId : Fleet, masterUAVId : Masters,
     tel : {TelFull}, n : 0..MaxDet, timestamp : {NoTs, MaxClock}]
    \cup
    {[slaveUAVId |-> s, masterUAVId |-> "M1", tel |-> TelFull, n |-> 0,
      timestamp |-> NoTs] : s \in Slaves \ Fleet}
    \cup
    {[slaveUAVId |-> s, masterUAVId |-> m, tel |-> TelFull, n |-> MaxDet,
      timestamp |-> NoTs] :
        <<s, m>> \in {<<NoId, "M1">>, <<"S1", NoId>>, <<NoId, NoId>>}}

\* The check that wants both identifiers missing before it rejects.
BothMissing(slaveData) == slaveData.slaveUAVId = NoId /\ slaveData.masterUAVId = NoId

\* !slaveData.slaveUAVId || !slaveData.masterUAVId
RequiredMissing(slaveData) == slaveData.slaveUAVId = NoId \/ slaveData.masterUAVId = NoId

\* Appends that have been started and have not yet stored their row.
Appending == {q \in Procs : req[q].pc \in {"sd.run", "sd.create", "sd.index", "sd.retry"}}
Room == Len(transmissions) + Cardinality(Appending) < MaxAppends

\* A request of the route that has passed the validation and stands at the
\* first await of storeSlaveData.  The timestamp handed to the service is
\* slaveData.timestamp || new Date().toISOString().
AcceptedReport(slaveData, now) ==
    [NewReq("slave-data") EXCEPT
        !.pc = "sd.run",
        !.slaveUAVId = slaveData.slaveUAVId,
        !.masterUAVId = slaveData.masterUAVId,
        !.tel = slaveData.tel,
        !.detections = DetectionList(slaveData.n),
        !.timestamp = slaveData.timestamp,
        !.ts = IF slaveData.timestamp # NoTs THEN slaveData.timestamp ELSE now]

\* The route up to the first await of storeSlaveData.
SlaveDataRoute(p, slaveData) ==
    /\ Free(p)
    /\ RequiredMissing(slaveData) \/ Room
    /\ req' = [req EXCEPT ![p] =
         IF RequiredMissing(slaveData)
         THEN Respond([NewReq("slave-data") EXCEPT
                          !.slaveUAVId = slaveData.slaveUAVId,
                          !.masterUAVId = slaveData.masterUAVId],
                      400, "slaveUAVId and masterUAVId are required", NoData)
         ELSE AcceptedReport(slaveData, clock)]
    /\ UNCHANGED <<masterTable, master_drone, assigned, slaveTable, transmissions, clock, io>>

\* What storeSlaveData returns.
StoredData(r) ==
    [kind |-> "stored", slaveUAVId |-> r.slaveUAVId, masterUAVId |-> r.masterUAVId,
     timestamp |-> r.ts, detectionsCount |-> Len(r.detections)]

\* req.io.emit('slave_data_received', ...) and res.json(...).
\* sent: the emit returned; otherwise it threw, inside the route's try.
SlaveDataReceived(r, sent) ==
    IF sent
    THEN Respond([r EXCEPT !.events = Append(@, [name |-> "slave_data_received",
                                                 uavId |-> r.slaveUAVId])],
                 200, "", StoredData(r))
    ELSE InternalError(r, EmitError)

\* The event emitted as soon as the row is stored, ahead of the relay.
AfterStoreAnnounces(r, sent) ==
    IF Len(r.detections) > 0
    THEN [r EXCEPT !.pc = "sd.relay", !.idx = 1,
                   !.events = Append(@, [name |-> "slave_data_received",
                                         uavId |-> r.slaveUAVId])]
    ELSE SlaveDataReceived(r, sent)

\* The route after storeSlaveData has returned, up to its next await: the
\* first createSurvivor call if there are detections, the end otherwise.
AfterStore(r, sent) ==
    IF Len(r.detections) > 0
    THEN [r EXCEPT !.pc = "sd.relay", !.idx = 1]
    ELSE SlaveDataReceived(r, sent)

\* The slots once a row has been inserted: no aggregate held is fresh.
Written(rq) == [q \in Procs |-> [rq[q] EXCEPT !.fresh = FALSE]]

\* db.run(query, params) has inserted the row of request r.
Inserted(r) ==
    [r EXCEPT !.runs = @ + 1, !.rowids = Append(@, Len(transmissions) + 1)]

\* await db.run(query, params) in the try block, and what follows it.
storeSlaveData(p) ==
    /\ req[p].pc = "sd.run"
    /\ \E fault \in BOOLEAN, sent \in EmitOutcomes :
         LET err == DbError(slaveTable, fault, "slave_data_transmissions")
             r == Met(req[p], err)
         IN  IF err = ""
             THEN /\ transmissions' = InsertTransmission(transmissions,
                          TransmissionRow(r.slaveUAVId, r.masterUAVId, r.tel,
                                          r.detections, r.ts))
                  /\ req' = Written([req EXCEPT ![p] = AfterStore(Inserted(r), sent)])
             ELSE /\ UNCHANGED transmissions
                  /\ req' = [req EXCEPT ![p] =
                        IF IncludesNoSuchTable(err)
                        THEN [r EXCEPT !.pc = "sd.create", !.runs = @ + 1]
                        ELSE InternalError([r EXCEPT !.runs = @ + 1], err)]
    /\ UNCHANGED <<masterTable, master_drone, assigned, slaveTable, clock, io>>

\* await db.run(query, params) in the catch block.
storeSlaveDataRetry(p) ==
    /\ req[p].pc = "sd.retry"
    /\ \E fault \in BOOLEAN, sent \in EmitOutcomes :
         LET err == DbError(slaveTable, fault, "slave_data_transmissions")
             r == Met(req[p], err)
         IN  IF err = ""
             THEN /\ transmissions' = InsertTransmission(transmissions,
                          TransmissionRow(r.slaveUAVId, r.masterUAVId, r.tel,
                                          r.detections, r.ts))
                  /\ req' = Written([req EXCEPT ![p] = AfterStore(Inserted(r), sent)])
             ELSE /\ UNCHANGED transmissions
                  /\ req' = [req EXCEPT ![p] = InternalError([r EXCEPT !.runs = @ + 1], err)]
    /\ UNCHANGED <<masterTable, master_drone, assigned, slaveTable, clock, io>>

\* The record with the addressed master as its reporting unit.
SurvivorRecordOfMaster(r, detection) ==
    [id |-> IF detection.id # NoId THEN detection.id ELSE "uuid",
     coordinates |-> detection.coordinates,
     detectionType |-> IF detection.type # "" THEN detection.type ELSE "human",
     uavId |-> r.masterUAVId,
     timestamp |-> IF detection.timestamp # NoTs THEN detection.timestamp ELSE r.timestamp,
     status |-> "detected"]

\* The record handed to survivorService.createSurvivor for a detection.
SurvivorRecord(r, detection) ==
    [id |-> IF detection.id # NoId THEN detection.id ELSE "uuid",
     coordinates |-> detection.coordinates,
     detectionType |-> IF detection.type # "" THEN detection.type ELSE "human",
     uavId |-> r.slaveUAVId,
     timestamp |-> IF detection.timestamp # NoTs THEN detection.timestamp ELSE r.timestamp,
     status |-> "detected"]

\* The route once the body of the for loop has been left for detection
\* r.idx: the next iteration, or the code after the loop.
NextDetection(r, sent) ==
    IF r.idx < Len(r.detections)
    THEN [r EXCEPT !.idx = @ + 1]
    ELSE SlaveDataReceived(r, sent)

\* The catch around the whole loop: the first failure ends the relay.
RelayFailedEndsLoop(r, sent) == SlaveDataReceived(r, sent)

\* No catch in the loop: the failure reaches the route's catch.
RelayFailedThrows(r, sent) == InternalError(r, "createSurvivor failed")

\* catch (error) of the loop body: the error is logged and the loop goes on.
RelayFailed(r, sent) == NextDetection(r, sent)

\* The try block of the loop body when createSurvivor has stored the record:
\* the event is emitted, or the emit throws into the catch of the loop body.
Relayed(r, survivor, emitted) ==
    [r EXCEPT !.survivors = Append(@, survivor),
              !.events = IF emitted
                         THEN Append(@, [name |-> "survivor_detected",
                                         uavId |-> r.slaveUAVId])
                         ELSE @]

\* One iteration of the for loop: await createSurvivor(...) stores the
\* record and the event is emitted, or it throws and the catch logs it.
RelayDetection(p) ==
    /\ req[p].pc = "sd.relay"
    /\ \E ok \in BOOLEAN, emitted \in EmitOutcomes, sent \in EmitOutcomes :
         LET r == req[p]
             survivor == SurvivorRecord(r, r.detections[r.idx])
             logged == [r EXCEPT !.relayLog =
                           Append(@, [k |-> r.idx, ok |-> ok,
                                      caught |-> ~ok \/ ~emitted])]
         IN  req' = [req EXCEPT ![p] =
                IF ok THEN NextDetection(Relayed(logged, survivor, emitted), sent)
                      ELSE RelayFailed(logged, sent)]
    /\ UNCHANGED <<masterTable, master_drone, assigned, slaveTable, transmissions, clock, io>>

\* ------------------------------------------------- GET /aggregated-data
DefaultLimit == 100

\* The limit query parameter: absent or not a number, or a number.
LimitParams == {[numeric |-> FALSE, n |-> 0]} \cup {[numeric |-> TRUE, n |-> k] : k \in -1..1}

AggregatedDataInputs == [masterUAVId : Masters \cup {NoId}, limit : LimitParams]

\* parseInt(req.query.limit) || 100: NaN and 0 are falsy.
ParseLimit(param) ==
    IF ~param.numeric \/ param.n = 0 THEN DefaultLimit ELSE param.n

\* The route up to the await of db.all.
AggregatedDataRoute(p, query) ==
    /\ Free(p)
    /\ LET limit == ParseLimit(query.limit)
           again == /\ req[p].fresh
                    /\ req[p].masterUAVId = query.masterUAVId
                    /\ req[p].limit = limit
       IN  req' = [req EXCEPT ![p] =
              IF query.masterUAVId = NoId
              THEN Respond(NewReq("aggregated-data"), 400,
                           "masterUAVId query parameter is required", NoData)
              ELSE [NewReq("aggregated-data") EXCEPT
                       !.pc = "ag.all",
                       !.masterUAVId = query.masterUAVId,
                       !.limitParam = query.limit,
                       !.limit = limit,
                       !.prev = IF again THEN req[p].data ELSE NoData]]
    /\ UNCHANGED <<masterTable, master_drone, assigned, slaveTable, transmissions, clock, io>>

\* res.json({success: true, data: aggregatedData}), or the route's catch
\* when getAggregatedData threw.
AggregateAnswered(r, snapshot) ==
    IF snapshot.kind = "error" THEN InternalError(r, snapshot.message)
    ELSE Respond([r EXCEPT !.fresh = TRUE], 200, "", snapshot)

\* A query that keeps in the table only the rows it retrieved.
getAggregatedDataPruning(p) ==
    /\ req[p].pc = "ag.all"
    /\ slaveTable
    /\ LET r == req[p]
           ts == QueryByMaster(transmissions, r.masterUAVId, r.limit)
       IN  /\ transmissions' = ts
           /\ req' = [req EXCEPT ![p] =
                  AggregateAnswered(r, Snapshot(r.masterUAVId, ts, clock, Accumulators(r)))]
    /\ UNCHANGED <<masterTable, master_drone, assigned, slaveTable, clock, io>>

\* ------------------------------------------------- POST /master-data
\* The bodies a master posts, with its id or without, with a list of its
\* own detections or without.
MasterDataInputs ==
    [masterUAVId : Masters \cup {NoId}, tel : {TelFull},
     detections : {<<>>, DetectionList(2)}]

\* The limit the route hands to getAggregatedData.
MasterDataLimit == 100

\* The route up to the await of getAggregatedData.
MasterDataRoute(p, masterData) ==
    /\ Free(p)
    /\ req' = [req EXCEPT ![p] =
          IF masterData.masterUAVId = NoId
          THEN Respond(NewReq("master-data"), 400, "masterUAVId is required", NoData)
          ELSE [NewReq("master-data") EXCEPT
                   !.pc = "md.all",
                   !.masterUAVId = masterData.masterUAVId,
                   !.tel = masterData.tel,
                   !.detections = masterData.detections,
                   !.limit = MasterDataLimit]]
    /\ UNCHANGED <<masterTable, master_drone, assigned, slaveTable, transmissions, clock, io>>

\* completeData: the master's own data (masterData.detections || [] among
\* them) around the aggregate, stamped with the instant now.
CompleteData(r, snapshot, now) ==
    [kind |-> "complete",
     masterUAVId |-> r.masterUAVId,
     masterData |-> [tel |-> r.tel, detections |-> r.detections],
     aggregatedSlaveData |-> snapshot,
     timestamp |-> now]

\* The route after getAggregatedData: req.io.emit('master_aggregated_data')
\* and res.json, or the route's catch when the service or the emit threw.
MasterDataReceived(r, snapshot, now, sent) ==
    IF snapshot.kind = "error" THEN InternalError(r, snapshot.message)
    ELSE IF ~sent THEN InternalError(r, EmitError)
    ELSE Respond([r EXCEPT !.events = Append(@, [name |-> "master_aggregated_data",
                                                 uavId |-> r.masterUAVId])],
                 200, "", CompleteData(r, snapshot, now))

\* await db.all(query, [masterUAVId, limit]) and the aggregation after it,
\* up to the next await of the calling route.  The master-data route reads
\* the clock again after the service returned its snapshot: the clock may
\* have moved on to the instant later between the two readings.
getAggregatedData(p) ==
    /\ req[p].pc \in {"ag.all", "md.all"}
    /\ \E fault \in BOOLEAN, sent \in EmitOutcomes, later \in clock..MaxClock :
         LET err == DbError(slaveTable, fault, "slave_data_transmissions")
             r == Met(req[p], err)
             snapshot == Snapshot(r.masterUAVId,
                                  QueryByMaster(transmissions, r.masterUAVId, r.limit),
                                  clock, Accumulators(r))
             again == r.pc = "md.all" /\ err = "" /\ snapshot.kind = "snapshot"
         IN  /\ later = clock \/ again
             /\ req' = [req EXCEPT ![p] =
                   IF err = ""
                   THEN IF r.pc = "ag.all" THEN AggregateAnswered(r, snapshot)
                        ELSE MasterDataReceived(r, snapshot, later, sent)
                   ELSE IF IncludesNoSuchTable(err)
                        THEN [r EXCEPT !.pc = IF r.pc = "ag.all" THEN "ag.create"
                                                                 ELSE "md.create"]
                        ELSE InternalError(r, err)]
             /\ clock' = later
    /\ UNCHANGED <<masterTable, master_drone, assigned, slaveTable, transmissions, io>>

\* ----------------------------------------------------------- GET /slaves
SlavesRoute(p) ==
    /\ Free(p)
    /\ \E masterUAVId \in Masters \cup {NoId} :
         req' = [req EXCEPT ![p] =
                    IF masterUAVId = NoId
                    THEN Respond(NewReq("slaves"), 400,
                                 "masterUAVId query parameter is required", NoData)
                    ELSE [NewReq("slaves") EXCEPT !.pc = "gs.all",
                                                  !.masterUAVId = masterUAVId]]
    /\ UNCHANGED <<masterTable, master_drone, assigned, slaveTable, transmissions, clock, io>>

\* SELECT DISTINCT slave_uav_id ... ORDER BY MAX(timestamp) DESC has an
\* aggregate in ORDER BY and none in the result set and no GROUP BY: SQLite
\* rejects the statement when it prepares it against the existing table.
MisuseOfAggregate == "SQLITE_ERROR: misuse of aggregate: MAX()"

\* await db.all(query, [masterUAVId]).
getSlaveDrones(p) ==
    /\ req[p].pc = "gs.all"
    /\ \E fault \in BOOLEAN :
         LET err == DbError(slaveTable, fault, "slave_data_transmissions")
             r == Met(req[p], err)
         IN  req' = [req EXCEPT ![p] =
                IF err = "" THEN InternalError(r, MisuseOfAggregate)
                ELSE IF IncludesNoSuchTable(err)
                     THEN [r EXCEPT !.pc = "gs.create"]
                     ELSE InternalError(r, err)]
    /\ UNCHANGED <<masterTable, master_drone, assigned, slaveTable, transmissions, clock, io>>

\* ------------------------------------------------- createSlaveDataTable
\* CREATE TABLE without IF NOT EXISTS after a DROP: the table is made anew.
createSlaveDataTableAnew(p) ==
    /\ req[p].pc \in {"sd.create", "ag.create", "md.create", "gs.create"}
    /\ slaveTable' = TRUE
    /\ transmissions' = <<>>
    /\ req' = [req EXCEPT ![p] =
          [@ EXCEPT !.pc = CASE @ = "sd.create" -> "sd.index"
                            [] @ = "ag.create" -> "ag.index"
                            [] @ = "md.create" -> "md.index"
                            [] OTHER -> "gs.index"]]
    /\ UNCHANGED <<masterTable, master_drone, assigned, clock, io>>

\* await db.run(CREATE TABLE IF NOT EXISTS slave_data_transmissions ...).
createSlaveDataTable(p) ==
    /\ req[p].pc \in {"sd.create", "ag.create", "md.create", "gs.create"}
    /\ \E fault \in BOOLEAN :
         LET r == Met(req[p], IF fault THEN Busy ELSE "")
         IN  IF fault
             THEN /\ UNCHANGED slaveTable
                  /\ req' = [req EXCEPT ![p] = InternalError(r, Busy)]
             ELSE /\ slaveTable' = TRUE
                  /\ req' = [req EXCEPT ![p] =
                        [r EXCEPT !.pc = CASE r.pc = "sd.create" -> "sd.index"
                                          [] r.pc = "ag.create" -> "ag.index"
                                          [] r.pc = "md.create" -> "md.index"
                                          [] OTHER -> "gs.index"]]
    /\ UNCHANGED <<masterTable, master_drone, assigned, transmissions, clock, io>>

\* The CREATE INDEX IF NOT EXISTS statements of createSlaveDataTable.
IndexStatements == 3

\* One awaited CREATE INDEX IF NOT EXISTS statement (an index changes no
\* query result): the next one follows, or, after the last, the caller's
\* code after createSlaveDataTable has returned.  The master-data route
\* reads the clock again after the service returned its empty snapshot: the
\* clock may have moved on to the instant later between the two readings.
createSlaveDataIndexes(p) ==
    /\ req[p].pc \in {"sd.index", "ag.index", "md.index", "gs.index"}
    /\ \E fault \in BOOLEAN, sent \in EmitOutcomes, later \in clock..MaxClock :
         LET r == Met(req[p], IF fault THEN Busy ELSE "")
             made == [r EXCEPT !.ix = @ + 1]
             again == r.pc = "md.index" /\ ~fault /\ made.ix = IndexStatements
         IN  /\ later = clock \/ again
             /\ req' = [req EXCEPT ![p] =
                   IF fault THEN InternalError(r, Busy)
                   ELSE IF made.ix < IndexStatements THEN made
                   ELSE CASE r.pc = "sd.index" -> [made EXCEPT !.pc = "sd.retry"]
                          [] r.pc = "ag.index" ->
                               AggregateAnswered(made, ZeroSnapshot(r.masterUAVId, clock))
                          [] r.pc = "md.index" ->
                               MasterDataReceived(made, ZeroSnapshot(r.masterUAVId, clock),
                                                  later, sent)
                          [] OTHER ->
                               Respond(made, 200, "", [kind |-> "slaves", slaves |-> <<>>])]
             /\ clock' = later
    /\ UNCHANGED <<masterTable, master_drone, assigned, slaveTable, transmissions, io>>

\* ---------------------------------------------------------------- system
\* Time passes.
Tick ==
    /\ clock < MaxClock
    /\ clock' = clock + 1
    /\ UNCHANGED <<masterTable, master_drone, assigned, slaveTable, transmissions, io, req>>

\* The service has just been constructed.  Each table may or may not have
\* been created already; none holds a row.
Init ==
    /\ masterTable \in BOOLEAN
    /\ master_drone = {}
    /\ assigned = [last |-> NoId, before |-> NoId]
    /\ slaveTable \in BOOLEAN
    /\ transmissions = <<>>
    /\ clock = 1
    /\ io = "attached"
    /\ req = [p \in Procs |-> IdleReq]

Next ==
    \/ Tick
    \/ \E p \in Serial :
         \/ SetMasterRoute(p)
         \/ setMasterDrone(p)
         \/ setMasterDroneRetry(p)
         \/ GetMasterRoute(p)
         \/ getMasterDrone(p)
         \/ createMasterDroneTable(p)
         \/ \E slaveData \in SlaveDataInputs : SlaveDataRoute(p, slaveData)
         \/ storeSlaveData(p)
         \/ storeSlaveDataRetry(p)
         \/ RelayDetection(p)
         \/ \E query \in AggregatedDataInputs : AggregatedDataRoute(p, query)
         \/ \E masterData \in MasterDataInputs : MasterDataRoute(p, masterData)
         \/ getAggregatedData(p)
         \/ SlavesRoute(p)
         \/ getSlaveDrones(p)
         \/ createSlaveDataTable(p)
         \/ createSlaveDataIndexes(p)

Spec == Init /\ [][Next]_vars

\* Aggregate queries for either master, with no limit given or with a limit
\* of one.
AggQueries ==
    {query \in AggregatedDataInputs :
        /\ query.masterUAVId \in Masters
        /\ query.limit \in {[numeric |-> FALSE, n |-> 0], [numeric |-> TRUE, n |-> 1]}}

\* ---------------------------------------------- the master registry alone
\* The slave_data_transmissions table plays no part.
InitMaster ==
    /\ Init
    /\ slaveTable = FALSE

\* setMaster and getMaster requests overlapping at their awaits.
NextMaster ==
    \/ Tick
    \/ \E p \in Procs :
         \/ SetMasterRoute(p)
         \/ setMasterDrone(p)
         \/ setMasterDroneRetry(p)
         \/ GetMasterRoute(p)
         \/ getMasterDrone(p)
         \/ createMasterDroneTable(p)

SpecMaster == InitMaster /\ [][NextMaster]_vars

\* ------------------------------------------------------ the reports alone
\* The master_drone table plays no part.
InitReport ==
    /\ Init
    /\ masterTable = FALSE

\* Reports only, one after another: the store of each and its relay.
NextReport ==
    \/ Tick
    \/ \E p \in Serial :
         \/ \E slaveData \in SlaveDataInputs : SlaveDataRoute(p, slaveData)
         \/ storeSlaveData(p)
         \/ storeSlaveDataRetry(p)
         \/ RelayDetection(p)
         \/ createSlaveDataTable(p)
         \/ createSlaveDataIndexes(p)

SpecReport == InitReport /\ [][NextReport]_vars

\* ------------------------------------------- the tables created on demand
\* A report of one slave to one master, with no detection and no timestamp.
BareReports ==
    {slaveData \in SlaveDataInputs :
        /\ slaveData.slaveUAVId = "S1"
        /\ slaveData.masterUAVId = "M1"
        /\ slaveData.n = 0
        /\ slaveData.timestamp = NoTs}

\* Every read and every write of the two tables, one after another, from a
\* store in which either table may be missing.
NextLazy ==
    \/ Tick
    \/ \E p \in Serial :
         \/ SetMasterRoute(p)
         \/ setMasterDrone(p)
         \/ setMasterDroneRetry(p)
         \/ GetMasterRoute(p)
         \/ getMasterDrone(p)
         \/ createMasterDroneTable(p)
         \/ \E slaveData \in BareReports : SlaveDataRoute(p, slaveData)
         \/ storeSlaveData(p)
         \/ storeSlaveDataRetry(p)
         \/ \E query \in AggQueries : AggregatedDataRoute(p, query)
         \/ \E masterData \in MasterDataInputs : MasterDataRoute(p, masterData)
         \/ getAggregatedData(p)
         \/ SlavesRoute(p)
         \/ getSlaveDrones(p)
         \/ createSlaveDataTable(p)
         \/ createSlaveDataIndexes(p)

SpecLazy == Init /\ [][NextLazy]_vars

\* --------------------------------------------- a failing event channel
\* req.io is one whose emit can throw; both tables exist.
InitEmit ==
    /\ masterTable = TRUE
    /\ master_drone = {}
    /\ assigned = [last |-> NoId, before |-> NoId]
    /\ slaveTable = TRUE
    /\ transmissions = <<>>
    /\ clock = 1
    /\ io = "failing"
    /\ req = [p \in Procs |-> IdleReq]

\* The routes that emit, one request after another.
NextEmit ==
    \/ Tick
    \/ \E p \in Serial :
         \/ SetMasterRoute(p)
         \/ setMasterDrone(p)
         \/ \E slaveData \in SlaveDataInputs : SlaveDataRoute(p, slaveData)
         \/ storeSlaveData(p)
         \/ RelayDetection(p)
         \/ \E masterData \in MasterDataInputs : MasterDataRoute(p, masterData)
         \/ getAggregatedData(p)

SpecEmit == InitEmit /\ [][NextEmit]_vars

\* ------------------------------------------------- overlapping reports
\* The reports of the two slaves, one each, with no detection or with one.
ReportsOf(s) ==
    {slaveData \in SlaveDataInputs : slaveData.slaveUAVId = s /\ slaveData.n <= 1}

\* Two reports, one of each slave, have been accepted by the route and stand
\* at the first await of storeSlaveData; the table may be missing.
InitAppend ==
    /\ masterTable = FALSE
    /\ master_drone = {}
    /\ assigned = [last |-> NoId, before |-> NoId]
    /\ slaveTable \in BOOLEAN
    /\ transmissions = <<>>
    /\ clock = 1
    /\ io = "attached"
    /\ \E d1 \in ReportsOf("S1"), d2 \in ReportsOf("S2") :
         req = [p \in Procs |-> AcceptedReport(IF p = 1 THEN d1 ELSE d2, clock)]

\* The two requests go on, overlapping at their awaits.
NextAppend ==
    \/ Tick
    \/ \E p \in Procs :
         \/ storeSlaveData(p)
         \/ storeSlaveDataRetry(p)
         \/ RelayDetection(p)
         \/ createSlaveDataTable(p)
         \/ createSlaveDataIndexes(p)

SpecAppend == InitAppend /\ [][NextAppend]_vars

\* ------------------------------------------------ reports and masters
\* The reports of slave s without detections, to either master.
PlainReportsOf(s) == {slaveData \in ReportsOf(s) : slaveData.n = 0}

\* Both tables exist and are empty; a report of each slave has been accepted
\* by the route and stands at the first await of storeSlaveData.
InitIsolation ==
    /\ masterTable = TRUE
    /\ master_drone = {}
    /\ assigned = [last |-> NoId, before |-> NoId]
    /\ slaveTable = TRUE
    /\ transmissions = <<>>
    /\ clock = 1
    /\ io = "attached"
    /\ \E d1 \in PlainReportsOf("S1"), d2 \in PlainReportsOf("S2") :
         req = [p \in Procs |-> AcceptedReport(IF p = 1 THEN d1 ELSE d2, clock)]

\* The two reports are stored at any moment; the first slot goes on with
\* set-master and aggregate requests, one after another.
NextIsolation ==
    \/ Tick
    \/ \E p \in Procs : storeSlaveData(p)
    \/ \E p \in Serial :
         \/ SetMasterRoute(p)
         \/ setMasterDrone(p)
         \/ \E query \in AggQueries : AggregatedDataRoute(p, query)
         \/ getAggregatedData(p)

SpecIsolation == InitIsolation /\ [][NextIsolation]_vars

\* ------------------------------------------------- the aggregator alone
\* The rows reports can have left in the log: to master M1 from either
\* ordinary slave at any instant, with no detection and no telemetry or with
\* MaxDet detections and telemetry; to master M2 from either ordinary slave;
\* and to master M1 from the slave with the index-like name and from the one
\* named like a member of Object.prototype.
AggRows ==
    {TransmissionRow(s, "M1", IF n = 0 THEN TelNone ELSE TelFull, DetectionList(n), ts) :
        s \in Fleet, n \in {0, MaxDet}, ts \in Instants}
    \cup {TransmissionRow(s, "M2", TelFull, DetectionList(MaxDet), 1) : s \in Fleet}
    \cup {TransmissionRow(s, "M1", TelFull, <<>>, 1) : s \in Slaves \ Fleet}

\* The store after any run of reports: a log of up to MaxLog rows in any
\* arrival order, or a table that was never created.
InitAgg ==
    /\ masterTable = FALSE
    /\ master_drone = {}
    /\ assigned = [last |-> NoId, before |-> NoId]
    /\ transmissions \in UNION {[1..k -> AggRows] : k \in 0..MaxLog}
    /\ slaveTable \in {TRUE, transmissions # <<>>}
    /\ clock = 1
    /\ io = "attached"
    /\ req = [p \in Procs |-> IdleReq]

\* Aggregate queries only: the log is not written.
NextAgg ==
    \/ Tick
    \/ \E p \in Serial :
         \/ \E query \in AggQueries : AggregatedDataRoute(p, query)
         \/ getAggregatedData(p)
         \/ createSlaveDataTable(p)
         \/ createSlaveDataIndexes(p)

SpecAgg == InitAgg /\ [][NextAgg]_vars

\* ------------------------------------------------------------ properties
\* Slot p holds an answered aggregate, and the log is as it was read.
AggAnswered(p) ==
    /\ req[p].pc = "done"
    /\ req[p].op = "aggregated-data"
    /\ req[p].status = 200
    /\ req[p].fresh

\* The rows that aggregate was computed from.
Window(p) == QueryByMaster(transmissions, req[p].masterUAVId, req[p].limit)

\* The positions of w that hold a row of slave s.
RowsOf(w, s) == {i \in DOMAIN w : w[i].slave_uav_id = s}

\* The latest fields of a summary are those of row t.
LatestIsFrom(summary, t) ==
    /\ summary.lastUpdate = t.timestamp
    /\ summary.latestLocation =
          [isNull |-> FALSE, lat |-> t.lat, lng |-> t.lng, altitude |-> t.altitude]
    /\ summary.latestBattery = t.battery_level
    /\ summary.latestISAC =
          [isNull |-> FALSE, mode |-> t.isac_mode,
           signalStrength |-> t.signal_strength, dataRate |-> t.data_rate]

\* Every summary has its latest fields from a row of its slave that no row
\* of that slave in w exceeds in timestamp.
TimestampWins(slaves, w) ==
    \A k \in DOMAIN slaves :
        \E i \in RowsOf(w, slaves[k].slaveUAVId) :
            /\ \A j \in RowsOf(w, slaves[k].slaveUAVId) : w[j].timestamp <= w[i].timestamp
            /\ LatestIsFrom(slaves[k], w[i])

\* The sequences that hold the rows of w in some order.
Reorderings(w) == {[i \in DOMAIN w |-> w[f[i]]] : f \in Permutations(DOMAIN w)}

\* C1: in every answered aggregate, each slave's latestLocation,
\* latestBattery, latestISAC and lastUpdate are those of a retrieved row of
\* that slave with the greatest timestamp (of two rows with T1 < T2, the T2
\* row), whatever the arrival order of the rows; and the aggregation gives
\* the same for every order in which the retrieved rows could be iterated.
C1_TimestampWins ==
    \A p \in Procs :
        AggAnswered(p) =>
            /\ TimestampWins(req[p].data.slaves, Window(p))
            /\ \A v \in Reorderings(Window(p)) :
                  TimestampWins(Snapshot(req[p].masterUAVId, v, clock, EmptyAcc).slaves,
                                Window(p))

\* A slave's T2 row arrived before its T1 row, both are retrieved, and the
\* answer carries the T2 row's fields.
C1_Witness ==
    \E p \in Procs :
        /\ AggAnswered(p)
        /\ Len(Window(p)) = 2
        /\ \E i, j \in DOMAIN transmissions :
              /\ i < j
              /\ transmissions[i].master_uav_id = req[p].masterUAVId
              /\ transmissions[j].master_uav_id = req[p].masterUAVId
              /\ transmissions[i].slave_uav_id = transmissions[j].slave_uav_id
              /\ transmissions[i].timestamp > transmissions[j].timestamp
              /\ transmissions[i].battery_level # transmissions[j].battery_level
              /\ Len(req[p].data.slaves) = 1
              /\ LatestIsFrom(req[p].data.slaves[1], transmissions[i])

RECURSIVE SumDetections(_)
\* The sum of detections_count over the rows of w.
SumDetections(w) ==
    IF w = <<>> THEN 0 ELSE Head(w).detections_count + SumDetections(Tail(w))

RECURSIVE SumSlaveDetections(_)
\* The sum of the summaries' totalDetections.
SumSlaveDetections(slaves) ==
    IF slaves = <<>> THEN 0
    ELSE Head(slaves).totalDetections + SumSlaveDetections(Tail(slaves))

RECURSIVE SumHistories(_)
\* The sum of the lengths of the summaries' transmission histories.
SumHistories(slaves) ==
    IF slaves = <<>> THEN 0
    ELSE Len(Head(slaves).transmissions) + SumHistories(Tail(slaves))

\* C2: in every answered aggregate, totalDetections is the sum of
\* detections_count over the retrieved rows and also the sum of the per-slave
\* totalDetections, and totalTransmissions is the number of retrieved rows
\* and also the sum of the per-slave history lengths.
C2_Additivity ==
    \A p \in Procs :
        AggAnswered(p) =>
            LET d == req[p].data
                w == Window(p)
            IN  /\ d.totalDetections = SumDetections(w)
                /\ d.totalDetections = SumSlaveDetections(d.slaves)
                /\ d.totalTransmissions = Len(w)
                /\ d.totalTransmissions = SumHistories(d.slaves)

\* Two slaves' rows with detections are retrieved and added up.
C2_Witness ==
    \E p \in Procs :
        /\ AggAnswered(p)
        /\ Len(Window(p)) = 2
        /\ Window(p)[1].slave_uav_id # Window(p)[2].slave_uav_id
        /\ Window(p)[1].detections_count > 0
        /\ Window(p)[2].detections_count > 0
        /\ req[p].data.totalDetections = 2 * MaxDet
        /\ req[p].data.totalTransmissions = 2

\* In the aggregate answered in slot p, totalSlaves is the number of
\* distinct slave ids among the retrieved rows, and slaves holds exactly one
\* summary for each of those ids and none for any other.
SlavesCounted(p) ==
    LET d == req[p].data
        w == Window(p)
        ids == {w[i].slave_uav_id : i \in DOMAIN w}
    IN  /\ d.totalSlaves = Cardinality(ids)
        /\ Len(d.slaves) = Cardinality(ids)
        /\ \A s \in ids :
              Cardinality({k \in DOMAIN d.slaves : d.slaves[k].slaveUAVId = s}) = 1
        /\ \A k \in DOMAIN d.slaves : d.slaves[k].slaveUAVId \in ids

\* Every aggregate that was answered has its slaves counted.
AnsweredCountsSlaves == \A p \in Procs : AggAnswered(p) => SlavesCounted(p)

\* C3: after any valid appends, an aggregate that met no storage error
\* answers, with totalSlaves the number of distinct slave ids among the
\* retrieved rows and exactly one summary for each of them.
C3_DistinctSlaves ==
    \A p \in Procs :
        (req[p].op = "aggregated-data" /\ req[p].pc = "done"
           /\ req[p].masterUAVId # NoId /\ req[p].faults = 0)
        => /\ req[p].status = 200
           /\ SlavesCounted(p)

\* Slot p holds an aggregate answered for the same arguments as the one it
\* held just before, with no write to the log in between.
AggRepeated(p) ==
    /\ req[p].pc = "done"
    /\ req[p].op = "aggregated-data"
    /\ req[p].status = 200
    /\ req[p].prev.kind = "snapshot"

\* C4 as claimed: two aggregates for the same arguments with no write in
\* between are equal in every field of the returned snapshot.
C4_IdenticalSnapshots ==
    \A p \in Procs : AggRepeated(p) => req[p].data = req[p].prev

\* C4, amended: two aggregates for the same arguments with no write in
\* between are equal in every field except timestamp, the time of the call
\* that each snapshot is stamped with.
C4_IdenticalButTimestamp ==
    \A p \in Procs :
        AggRepeated(p) =>
            [req[p].data EXCEPT !.timestamp = NoTs] = [req[p].prev EXCEPT !.timestamp = NoTs]

\* An aggregate over two rows was answered again at a later instant.
C4_Witness ==
    \E p \in Procs :
        /\ AggRepeated(p)
        /\ req[p].data.totalTransmissions = 2
        /\ req[p].data.timestamp > req[p].prev.timestamp

\* C7: an aggregate for a master none of whose transmissions is in the log
\* (the log empty, holding other masters' rows only, or its table missing),
\* when the store fails no statement, is answered with success: all three
\* counters 0 and no slave summary.
C7_NoTransmissions ==
    \A p \in Procs :
        ( /\ req[p].pc = "done"
          /\ req[p].op = "aggregated-data"
          /\ req[p].masterUAVId # NoId
          /\ req[p].faults = 0
          /\ \A i \in DOMAIN transmissions :
                transmissions[i].master_uav_id # req[p].masterUAVId )
        => /\ req[p].status = 200
           /\ req[p].data.kind = "snapshot"
           /\ req[p].data.masterUAVId = req[p].masterUAVId
           /\ req[p].data.totalSlaves = 0
           /\ req[p].data.totalTransmissions = 0
           /\ req[p].data.totalDetections = 0
           /\ req[p].data.slaves = <<>>

\* The log holds rows, all of another master, and the aggregate is empty.
C7_Witness ==
    \E p \in Procs :
        /\ AggAnswered(p)
        /\ Len(transmissions) = MaxLog
        /\ \A i \in DOMAIN transmissions :
              /\ transmissions[i].master_uav_id # req[p].masterUAVId
              /\ transmissions[i].detections_count > 0
        /\ req[p].data.totalSlaves = 0

\* Slot p holds a report that carried both identifiers.
ValidReport(p) ==
    /\ req[p].op = "slave-data"
    /\ req[p].slaveUAVId # NoId
    /\ req[p].masterUAVId # NoId

RECURSIVE Succeeded(_)
\* The detections, by position, that the createSurvivor calls of log stored.
Succeeded(log) ==
    IF log = <<>> THEN <<>>
    ELSE IF Head(log).ok THEN <<Head(log).k>> \o Succeeded(Tail(log))
    ELSE Succeeded(Tail(log))

\* C5: while a report is relayed and when it is answered, the createSurvivor
\* calls made so far are for detections 1, 2, 3, ... in list order, each
\* once; the records forwarded are exactly those of the calls that did not
\* fail, in order, each built from its own detection; and when the report is
\* answered every detection of its list has been attempted.
C5_RelayIsolation ==
    \A p \in Procs :
        LET r == req[p] IN
        (ValidReport(p) /\ (r.pc = "sd.relay" \/ (r.pc = "done" /\ r.status = 200)))
        => /\ \A i \in DOMAIN r.relayLog : r.relayLog[i].k = i
           /\ Len(r.relayLog) = (IF r.pc = "done" THEN Len(r.detections) ELSE r.idx - 1)
           /\ [i \in DOMAIN r.survivors |-> r.survivors[i].coordinates]
                 = Succeeded(r.relayLog)
           /\ \A i \in DOMAIN r.survivors :
                 r.survivors[i] = SurvivorRecord(r, r.detections[r.survivors[i].coordinates])

\* Three detections, the second failing: the first and the third are
\* forwarded and the report is answered with success.
C5_Witness ==
    \E p \in Procs :
        /\ ValidReport(p)
        /\ req[p].pc = "done"
        /\ req[p].status = 200
        /\ Len(req[p].detections) = 3
        /\ [i \in DOMAIN req[p].relayLog |-> req[p].relayLog[i].ok] = <<TRUE, FALSE, TRUE>>
        /\ [i \in DOMAIN req[p].survivors |-> req[p].survivors[i].coordinates] = <<1, 3>>

\* C6: a report with both identifiers, when the store fails no statement of
\* it, is answered with success and has inserted exactly one row, its own,
\* however many of its detections failed to relay; a report is answered
\* with an error only for a storage error, never for a relay failure.
C6_ReportSucceeds ==
    \A p \in Procs :
        LET r == req[p] IN
        (ValidReport(p) /\ r.pc = "done")
        => /\ r.faults = 0 =>
                /\ r.status = 200
                /\ r.data = StoredData(r)
                /\ Len(r.rowids) = 1
                /\ r.rowids[1] \in DOMAIN transmissions
                /\ transmissions[r.rowids[1]] =
                       TransmissionRow(r.slaveUAVId, r.masterUAVId, r.tel, r.detections, r.ts)
           /\ r.status # 200 => (r.status = 500 /\ r.error = Busy /\ r.relayLog = <<>>)

\* Every detection of a report failed to relay and the report succeeded.
C6_Witness ==
    \E p \in Procs :
        /\ ValidReport(p)
        /\ req[p].pc = "done"
        /\ req[p].status = 200
        /\ Len(req[p].relayLog) = MaxDet
        /\ \A i \in DOMAIN req[p].relayLog : ~req[p].relayLog[i].ok
        /\ req[p].survivors = <<>>
        /\ Len(transmissions) = 1

\* C8: the master_drone table never holds more than one row, and the row it
\* holds is the one of the last completed setMasterDrone; a getMaster
\* that finds an assignment returns the id given to the last setMasterDrone
\* completed when it read the table; and it finds none exactly when none
\* had completed.  Requests may overlap.
C8_SingleAssignment ==
    /\ Cardinality(master_drone) <= 1
    /\ (master_drone = {}) <=> (assigned.last = NoId)
    /\ \A row \in master_drone : row.master_uav_id = assigned.last
    /\ \A p \in Procs :
          (req[p].op = "master" /\ req[p].pc = "done")
          => /\ req[p].status = 200 =>
                  (req[p].seen # NoId /\ req[p].data.masterUAVId = req[p].seen)
             /\ req[p].status = 404 => req[p].seen = NoId
             /\ req[p].faults = 0 => req[p].status \in {200, 404}

\* M2 was assigned after M1, and getMaster returns M2.
C8_Witness ==
    \E p \in Procs :
        /\ req[p].op = "master"
        /\ req[p].pc = "done"
        /\ req[p].status = 200
        /\ assigned = [last |-> "M2", before |-> "M1"]
        /\ req[p].data.masterUAVId = "M2"

\* A read that met a missing table, when the store fails no statement of
\* it, ends with the empty result of its kind and with the table created.
ReadOfMissingTable(p) ==
    LET r == req[p] IN
    (r.pc = "done" /\ r.noTable /\ r.faults = 0)
    => /\ r.op = "master" =>
            (r.status = 404 /\ r.error = "No master drone assigned" /\ masterTable)
       /\ r.op = "aggregated-data" =>
            /\ r.status = 200
            /\ r.data.totalSlaves = 0
            /\ r.data.totalTransmissions = 0
            /\ r.data.totalDetections = 0
            /\ r.data.slaves = <<>>
            /\ slaveTable
       /\ r.op = "master-data" =>
            /\ r.status = 200
            /\ r.data.aggregatedSlaveData
                  = ZeroSnapshot(r.masterUAVId, r.data.aggregatedSlaveData.timestamp)
            /\ slaveTable
       /\ r.op = "slaves" =>
            (r.status = 200 /\ r.data = [kind |-> "slaves", slaves |-> <<>>] /\ slaveTable)

\* A table that exists goes on existing, and a statement meets a missing
\* table only while the table is missing.
TablesStay ==
    /\ masterTable => masterTable'
    /\ slaveTable => slaveTable'
    /\ \A p \in Procs :
          (req'[p].noTable /\ ~req[p].noTable)
          => IF req[p].op \in {"set-master", "master"} THEN ~masterTable
             ELSE ~slaveTable

\* C9: getMaster, aggregate and distinctSlaves, issued while their table is
\* missing, return absent, the zero snapshot and the empty list instead of
\* an error and leave the table created; a created table is never missing
\* again.
C9_LazyInitOnRead ==
    [](\A p \in Procs : ReadOfMissingTable(p)) /\ [][TablesStay]_vars

\* distinctSlaves met the missing table, created it and returned the empty
\* list.
C9_Witness ==
    \E p \in Procs :
        /\ req[p].op = "slaves"
        /\ req[p].pc = "done"
        /\ req[p].noTable
        /\ req[p].status = 200
        /\ slaveTable

\* Slot p holds an answered write whose input was valid.
WriteDone(p) ==
    /\ req[p].pc = "done"
    /\ req[p].status # 400
    /\ req[p].op = "set-master" \/ ValidReport(p)

\* C10: an answered append or setMaster has run its write statement at most
\* twice: once if the table was there, and, if the table was missing, once
\* more after the table was created.  A success without a missing table took
\* one run, a success with one took two and left the table created; a
\* success leaves exactly one record of the operation; and any storage
\* error, of the first run, of the creation or of the retry, is the error
\* the caller gets, with no run after it.
C10_LazyInitOnWrite ==
    \A p \in Procs :
        LET r == req[p] IN
        WriteDone(p)
        => /\ r.runs \in {1, 2}
           /\ ~r.noTable => r.runs = 1
           /\ r.status = 200 => /\ r.faults = 0
                                /\ r.runs = (IF r.noTable THEN 2 ELSE 1)
           /\ r.faults > 0 => (r.status = 500 /\ r.error = Busy /\ r.faults = 1)
           /\ (r.status = 200 /\ r.op = "slave-data") =>
                 /\ slaveTable
                 /\ Len(r.rowids) = 1
                 /\ r.rowids[1] \in DOMAIN transmissions
                 /\ transmissions[r.rowids[1]] =
                        TransmissionRow(r.slaveUAVId, r.masterUAVId, r.tel, r.detections, r.ts)
           /\ (r.status = 200 /\ r.op = "set-master") =>
                 /\ masterTable
                 /\ master_drone = {[id |-> 1, master_uav_id |-> r.masterUAVId,
                                     assigned_at |-> r.ts, updated_at |-> r.ts]}
           /\ r.status # 200 => r.rowids = <<>>

\* A report met the missing table, created it, ran its insert a second time
\* and left one row.
C10_Witness ==
    \E p \in Procs :
        /\ ValidReport(p)
        /\ req[p].pc = "done"
        /\ req[p].status = 200
        /\ req[p].noTable
        /\ req[p].runs = 2
        /\ Len(transmissions) = 1

\* Slot p holds a report that lacked an identifier.
InvalidReport(rq, p) ==
    /\ rq[p].op = "slave-data"
    /\ rq[p].slaveUAVId = NoId \/ rq[p].masterUAVId = NoId

\* A step in which a report lacking an identifier is received changes
\* neither table.
RejectedLeavesStore ==
    \A p \in Procs :
        (req'[p] # req[p] /\ InvalidReport(req', p))
        => UNCHANGED <<masterTable, master_drone, slaveTable, transmissions>>

\* C11: a report without slaveUAVId or without masterUAVId is answered 400
\* "slaveUAVId and masterUAVId are required" at once; it runs no statement,
\* inserts no row, makes no createSurvivor call and emits no event, and the
\* step that receives it leaves both tables as they were.
C11_InvalidReportRejected ==
    /\ [](\A p \in Procs :
            InvalidReport(req, p)
            => /\ req[p].pc = "done"
               /\ req[p].status = 400
               /\ req[p].error = "slaveUAVId and masterUAVId are required"
               /\ req[p].runs = 0
               /\ req[p].rowids = <<>>
               /\ req[p].relayLog = <<>>
               /\ req[p].survivors = <<>>
               /\ req[p].events = <<>>)
    /\ [][RejectedLeavesStore]_vars

\* A report with detections and no slaveUAVId was rejected after another
\* report had been stored; the log still holds that one row.
C11_Witness ==
    \E p \in Procs :
        /\ InvalidReport(req, p)
        /\ req[p].slaveUAVId = NoId
        /\ req[p].masterUAVId = "M1"
        /\ req[p].status = 400
        /\ Len(transmissions) = 1

\* C12: every record handed to createSurvivor, and every survivor_detected
\* event emitted, for every detection of every report, names the report's
\* slaveUAVId as its uavId, and so never the masterUAVId the report was
\* addressed to.
C12_ReportingUnitIsSlave ==
    \A p \in Procs :
        LET r == req[p] IN
        r.op = "slave-data"
        => /\ \A i \in DOMAIN r.survivors :
                 /\ r.survivors[i].uavId = r.slaveUAVId
                 /\ r.survivors[i].uavId # r.masterUAVId
           /\ \A i \in DOMAIN r.events :
                 r.events[i].name = "survivor_detected"
                 => (r.events[i].uavId = r.slaveUAVId /\ r.events[i].uavId # r.masterUAVId)
           /\ Len(SelectSeq(r.events, LAMBDA e : e.name = "survivor_detected"))
                 = Len(r.survivors)

\* Slave S2 reported MaxDet detections to master M1 and every one of them
\* was relayed.
C12_Witness ==
    \E p \in Procs :
        /\ ValidReport(p)
        /\ req[p].slaveUAVId = "S2"
        /\ req[p].masterUAVId = "M1"
        /\ req[p].pc = "done"
        /\ Len(req[p].survivors) = MaxDet
        /\ \A i \in DOMAIN req[p].survivors : req[p].survivors[i].uavId = "S2"

\* The step is one of the aggregate request in slot p, made through either
\* route that calls getAggregatedData: the route's entry, the query, or the
\* table creation of its catch block.
AggregateStep(p) ==
    /\ req'[p].op \in {"aggregated-data", "master-data"}
    /\ [req'[p] EXCEPT !.fresh = FALSE] # [req[p] EXCEPT !.fresh = FALSE]

\* C13: no step of an aggregate request changes a row of either table or
\* the existence of master_drone; the one thing it can do to the store is
\* create the slave_data_transmissions table when it is missing, which
\* leaves the log as empty as it was.
C13_AggregateIsPureRead ==
    [][\A p \in Procs :
          AggregateStep(p)
          => /\ UNCHANGED <<transmissions, master_drone, masterTable, assigned>>
             /\ slaveTable => slaveTable'
             /\ slaveTable' # slaveTable
                  => (transmissions = <<>> /\ req[p].pc \in {"ag.create", "md.create"})
      ]_vars

\* An aggregate found the log's table missing, created it and answered,
\* with a master assigned: the assignment is still there and the log is
\* still empty.
C13_Witness ==
    \E p \in Procs :
        /\ AggAnswered(p)
        /\ req[p].noTable
        /\ slaveTable
        /\ transmissions = <<>>
        /\ master_drone # {}

\* The rowids of the rows addressed to master m.
RowidsOf(m) == {i \in DOMAIN transmissions : transmissions[i].master_uav_id = m}

\* Row i comes before row j in timestamp-descending order, the earlier
\* arrival first among equal timestamps.
Precedes(i, j) ==
    \/ transmissions[i].timestamp > transmissions[j].timestamp
    \/ (transmissions[i].timestamp = transmissions[j].timestamp /\ i < j)

\* The rowids of master m that fewer than limit others precede.
Greatest(m, limit) ==
    {i \in RowidsOf(m) :
        limit < 0 \/ Cardinality({j \in RowidsOf(m) : Precedes(j, i)}) < limit}

\* The rows of a set K of rowids, each behind those that precede it.
InOrder(K) ==
    [k \in 1..Cardinality(K) |->
        transmissions[CHOOSE i \in K : Cardinality({j \in K : Precedes(j, i)}) = k - 1]]

\* C14 as claimed: every answered aggregate is computed from the rows of the
\* master that arrived last, up to the limit, put in timestamp-descending
\* order.
C14_WindowIsLatestArrivals ==
    \A p \in Procs :
        AggAnswered(p) =>
            req[p].data = Snapshot(req[p].masterUAVId,
                                   QueryLatestArrivals(transmissions, req[p].masterUAVId,
                                                       req[p].limit),
                                   req[p].data.timestamp, EmptyAcc)

\* C14: every answered aggregate is computed from the rows of the master
\* with the greatest timestamps, up to the limit, in timestamp-descending
\* order, rows of equal timestamp in arrival order; a row is left out only
\* if limit rows precede it in that order, whenever it arrived.
C14_WindowIsGreatestTimestamps ==
    \A p \in Procs :
        AggAnswered(p) =>
            LET K == Greatest(req[p].masterUAVId, req[p].limit) IN
            /\ req[p].data = Snapshot(req[p].masterUAVId, InOrder(K),
                                      req[p].data.timestamp, EmptyAcc)
            /\ req[p].data.totalTransmissions = Cardinality(K)
            /\ \A i \in K : \A j \in RowidsOf(req[p].masterUAVId) \ K : Precedes(i, j)

\* The master's first row has a greater timestamp than its second, the
\* limit is one, and the answer is computed from the first row: the row
\* left out is the one that arrived last.
C14_Witness ==
    \E p \in Procs :
        /\ AggAnswered(p)
        /\ req[p].limit = 1
        /\ RowidsOf(req[p].masterUAVId) = {1, 2}
        /\ transmissions[1].timestamp > transmissions[2].timestamp
        /\ req[p].data.totalTransmissions = 1
        /\ req[p].data.slaves[1].slaveUAVId = transmissions[1].slave_uav_id
        /\ req[p].data.slaves[1].lastUpdate = transmissions[1].timestamp

\* The limit parameter of the aggregate request in slot p is a positive
\* number.
PositiveLimit(p) == req[p].limitParam.numeric /\ req[p].limitParam.n > 0

\* C15 as claimed: the limit an aggregate request queries with is the
\* supplied number when that is positive and 100 otherwise (none supplied,
\* not a number, zero, negative), and an answered aggregate has at most
\* that many transmissions.
C15_LimitDefaultsTo100 ==
    \A p \in Procs :
        (req[p].op = "aggregated-data" /\ req[p].masterUAVId # NoId)
        => /\ req[p].limit = (IF PositiveLimit(p) THEN req[p].limitParam.n ELSE DefaultLimit)
           /\ req[p].limit > 0
           /\ AggAnswered(p) => req[p].data.totalTransmissions <= req[p].limit

\* C16: a failure to deliver an event never makes the originating operation
\* report failure: a set-master, a report or a master-data (aggregate)
\* request that met no storage error and was not rejected does not end with
\* a failure because of what its emits did, and a detection whose record was
\* stored is never handled as a failed one.
C16_EmitIsFireAndForget ==
    \A p \in Procs :
        LET r == req[p]
        IN  /\ (r.op \in {"set-master", "slave-data", "master-data"} /\ r.pc = "done"
                 /\ r.masterUAVId # NoId
                 /\ (r.op = "slave-data" => r.slaveUAVId # NoId)
                 /\ r.faults = 0)
                => (r.status = 200 \/ r.error = PushOfUndefined)
            /\ \A i \in DOMAIN r.relayLog : r.relayLog[i].ok => ~r.relayLog[i].caught

\* The slots whose report has been stored, and the row of the report of p.
Stored == {p \in Procs : req[p].op = "slave-data" /\ req[p].rowids # <<>>}
OwnRow(p) ==
    TransmissionRow(req[p].slaveUAVId, req[p].masterUAVId, req[p].tel,
                    req[p].detections, req[p].ts)

\* C17: overlapping reports of different slaves neither lose nor corrupt one
\* another: the log holds exactly one row for each report stored so far, each
\* with the fields of its own report, and once every report has succeeded it
\* holds as many rows as there were reports.
C17_ConcurrentAppends ==
    /\ Len(transmissions) = Cardinality(Stored)
    /\ \A p \in Stored :
         /\ Len(req[p].rowids) = 1
         /\ req[p].rowids[1] \in DOMAIN transmissions
         /\ transmissions[req[p].rowids[1]] = OwnRow(p)
    /\ \A p, q \in Stored : p # q => req[p].rowids # req[q].rowids
    /\ (\A p \in Procs : req[p].pc = "done" /\ req[p].status = 200)
         => Len(transmissions) = Cardinality(Procs)

\* Both reports hit the missing table, ran the create-and-retry path, and
\* succeeded; the second to store differs from the first in its fields.
C17_Witness ==
    /\ \A p \in Procs : req[p].pc = "done" /\ req[p].status = 200 /\ req[p].noTable
    /\ Len(transmissions) = 2
    /\ transmissions[1].slave_uav_id = "S2"
    /\ transmissions[1].master_uav_id # transmissions[2].master_uav_id

\* The slaves with at least one row addressed to master m.
SlavesOf(m) ==
    {transmissions[i].slave_uav_id :
        i \in {j \in DOMAIN transmissions : transmissions[j].master_uav_id = m}}

\* C18: a slaves request that met no storage fault answers 200 with, once
\* each, exactly the slaves that have a row addressed to the master asked
\* about.
C18_DistinctSlaves ==
    \A p \in Procs :
        LET r == req[p]
        IN  (r.op = "slaves" /\ r.pc = "done" /\ r.masterUAVId # NoId /\ r.faults = 0)
            => /\ r.status = 200
               /\ r.data.kind = "slaves"
               /\ {r.data.slaves[i] : i \in DOMAIN r.data.slaves} = SlavesOf(r.masterUAVId)
               /\ Len(r.data.slaves) = Cardinality(SlavesOf(r.masterUAVId))

\* The least element of a non-empty set of positions.
First(S) == CHOOSE i \in S : \A j \in S : i <= j

\* The rowids of the rows slave s sent to master m with timestamp ts.
Tied(m, s, ts) ==
    {i \in DOMAIN transmissions :
        /\ transmissions[i].master_uav_id = m
        /\ transmissions[i].slave_uav_id = s
        /\ transmissions[i].timestamp = ts}

\* C19: in every answered aggregate each slave's latest fields are those of
\* the first row of that slave in iteration order, which has the greatest
\* timestamp of its retrieved rows and is the earliest-arrived of the rows
\* that share that timestamp; no later row with the same timestamp has
\* replaced them.
C19_TieKeepsFirstSeen ==
    \A p \in Procs :
        AggAnswered(p) =>
            LET w == Window(p)
                slaves == req[p].data.slaves
            IN  \A k \in DOMAIN slaves :
                    LET rows == RowsOf(w, slaves[k].slaveUAVId)
                        first == w[First(rows)]
                        tied == Tied(req[p].masterUAVId, slaves[k].slaveUAVId,
                                     first.timestamp)
                    IN  /\ rows # {}
                        /\ \A j \in rows : w[j].timestamp <= first.timestamp
                        /\ LatestIsFrom(slaves[k], first)
                        /\ first = transmissions[First(tied)]

\* Two retrieved rows of one slave share the greatest timestamp and differ
\* in their telemetry; the answer carries the fields of the one that arrived
\* first and not those of the other.
C19_Witness ==
    \E p \in Procs :
        /\ AggAnswered(p)
        /\ Len(Window(p)) = 2
        /\ Len(req[p].data.slaves) = 1
        /\ Len(transmissions) = 2
        /\ transmissions[1].timestamp = transmissions[2].timestamp
        /\ transmissions[1].battery_level # transmissions[2].battery_level
        /\ LatestIsFrom(req[p].data.slaves[1], transmissions[1])
        /\ ~LatestIsFrom(req[p].data.slaves[1], transmissions[2])

\* C20: every forwarded record of a detection that carries no timestamp of
\* its own has the timestamp of the stored row of the report it came in,
\* whether the caller gave that timestamp or it was defaulted.
C20_RelayedTimestampDefault ==
    \A p \in Procs :
        LET r == req[p] IN
        r.op = "slave-data"
        => \A i \in DOMAIN r.survivors :
              r.detections[r.survivors[i].coordinates].timestamp = NoTs
              => /\ r.rowids # <<>>
                 /\ r.rowids[1] \in DOMAIN transmissions
                 /\ r.survivors[i].timestamp = transmissions[r.rowids[1]].timestamp

\* The events of request r named name.
EventsNamed(r, name) == SelectSeq(r.events, LAMBDA e : e.name = name)

\* What a report has done is in order: nothing is relayed or emitted before
\* its row is stored, and slave_data_received is its last event, emitted
\* once, when every detection has been attempted.
ReportInOrder(r) ==
    /\ r.rowids = <<>> => (r.relayLog = <<>> /\ r.survivors = <<>> /\ r.events = <<>>)
    /\ Len(EventsNamed(r, "slave_data_received")) <= 1
    /\ EventsNamed(r, "slave_data_received") # <<>>
         => /\ r.events[Len(r.events)].name = "slave_data_received"
            /\ Len(r.relayLog) = Len(r.detections)
            /\ r.pc = "done"
    /\ (r.pc = "done" /\ r.status = 200)
         => Len(EventsNamed(r, "slave_data_received")) = 1

\* A step of the report in slot p that attempts a relay starts with the row
\* stored, and a step that emits slave_data_received ends with every
\* detection attempted.
ReportStepInOrder(p) ==
    (req[p].op = "slave-data" /\ req'[p].op = "slave-data"
       /\ req[p].pc # "done" /\ req[p].pc # "idle")
    => /\ Len(req'[p].relayLog) > Len(req[p].relayLog)
            => (req[p].rowids # <<>> /\ req[p].rowids[1] \in DOMAIN transmissions)
       /\ Len(EventsNamed(req'[p], "slave_data_received"))
              > Len(EventsNamed(req[p], "slave_data_received"))
            => (req'[p].rowids # <<>> /\ Len(req'[p].relayLog) = Len(req'[p].detections))

\* C21: within one report the row is stored before any detection is relayed
\* and slave_data_received is emitted only after every relay attempt has
\* finished; a report whose store failed relays no detection and emits no
\* event.
C21_ReportOrdering ==
    /\ [](\A p \in Procs : req[p].op = "slave-data" => ReportInOrder(req[p]))
    /\ [][\A p \in Procs : ReportStepInOrder(p)]_vars

\* A report with MaxDet detections met the missing table, was stored on the
\* retry, had one relay fail and the others succeed, and was then announced.
C21_Witness ==
    \E p \in Procs :
        /\ ValidReport(p)
        /\ req[p].pc = "done" /\ req[p].status = 200
        /\ req[p].noTable
        /\ Len(req[p].detections) = MaxDet
        /\ Len(req[p].survivors) = MaxDet - 1
        /\ Len(req[p].events) = MaxDet
        /\ req[p].events[MaxDet].name = "slave_data_received"

\* The rows of the log addressed to master m, in arrival order.
OfMaster(rows, m) == SelectSeq(rows, LAMBDA t : t.master_uav_id = m)

\* What an aggregate of master m with the given limit computes from rows.
AggregateOf(rows, m, limit) ==
    Snapshot(m, QueryByMaster(rows, m, limit), NoTs, EmptyAcc)

\* The limits an aggregate can run with.
Limits == {ParseLimit(l) : l \in LimitParams}

\* The request in slot p takes a step.
Acts(p) == req'[p].pc # req[p].pc

\* Steps keep the masters apart: a step of a report leaves the master
\* registry alone, a step of a set-master request leaves the log alone, and
\* a row added for one master changes no aggregate of another master.
IsolatedStep ==
    /\ \A p \in Procs :
         /\ (Acts(p) /\ req'[p].op = "slave-data")
               => UNCHANGED <<master_drone, masterTable, assigned>>
         /\ (Acts(p) /\ req'[p].op = "set-master")
               => UNCHANGED <<transmissions, slaveTable>>
    /\ transmissions' # transmissions
         => /\ Len(transmissions') = Len(transmissions) + 1
            /\ SubSeq(transmissions', 1, Len(transmissions)) = transmissions
            /\ \A m \in Masters, limit \in Limits :
                  m # transmissions'[Len(transmissions')].master_uav_id
                  => AggregateOf(transmissions', m, limit)
                        = AggregateOf(transmissions, m, limit)

\* C22: an answered aggregate of master M is what the rows addressed to M
\* alone give, and every retrieved row is addressed to M; a stored report is
\* addressed to the master it stated, whoever is designated; a report never
\* changes the master registry, set-master never changes the log, and a row
\* added for another master changes no field of M's aggregate.
C22_MasterIsolation ==
    /\ [](\A p \in Procs :
            /\ AggAnswered(p)
                 => /\ \A i \in DOMAIN Window(p) :
                          Window(p)[i].master_uav_id = req[p].masterUAVId
                    /\ [req[p].data EXCEPT !.timestamp = NoTs]
                          = AggregateOf(OfMaster(transmissions, req[p].masterUAVId),
                                        req[p].masterUAVId, req[p].limit)
            /\ (req[p].op = "slave-data" /\ req[p].rowids # <<>>)
                 => /\ req[p].rowids[1] \in DOMAIN transmissions
                    /\ transmissions[req[p].rowids[1]].master_uav_id = req[p].masterUAVId)
    /\ [][IsolatedStep]_vars

\* Master M1 is designated, the log holds a row for M2 that arrived first and
\* a row for M1, and the aggregate of M1 answered from that log counts one
\* transmission, of slave S1.
C22_Witness ==
    \E p \in Procs :
        /\ AggAnswered(p)
        /\ req[p].masterUAVId = "M1"
        /\ assigned.last = "M1"
        /\ Len(transmissions) = 2
        /\ transmissions[1].master_uav_id = "M2"
        /\ transmissions[2].master_uav_id = "M1"
        /\ req[p].limit = DefaultLimit
        /\ req[p].data.totalTransmissions = 1
        /\ req[p].data.totalSlaves = 1
        /\ req[p].data.slaves[1].slaveUAVId = "S1"

====
